---- MODULE Spec2Model ----
(***************************************************************************)
(* Model of src/app.py (Smart ATS Resume Analyzer): one Streamlit script   *)
(* run of main() after another, sharing st.session_state.  A run           *)
(* configures the AI client, draws the page, and when the Analyze button   *)
(* was clicked performs one analysis request: extract text, build the      *)
(* prompt, call the AI, json.loads the response, and render the three      *)
(* result tabs.                                                            *)
(*                                                                         *)
(* JSON values are records [t, n, s, items]; text is a sequence of         *)
(* one-character strings, so that str(), str.strip('%') and int() are      *)
(* computed character by character as Python computes them.                *)
(*                                                                         *)
(* Calls into streamlit/plotly (st.error, st.plotly_chart, ...) are taken  *)
(* to return normally; extract_pdf_text, get_gemini_response and           *)
(* configure_genai may raise.                                              *)
(***************************************************************************)
EXTENDS Integers, Sequences, FiniteSets, TLC

(***************************************************************************)
(* Bounds of the model.                                                    *)
(***************************************************************************)
\* longest match-field string enumerated over Alphabet
MaxStrLen == 3
\* integers delivered as the match field range over -ScoreSlack .. Full+ScoreSlack
ScoreSlack == 3

\* the whole of the pie: values=[score, 100 - score]
Full == 100

(***************************************************************************)
(* Text.                                                                   *)
(***************************************************************************)
Digits == <<"0", "1", "2", "3", "4", "5", "6", "7", "8", "9">>

IsDigit(c) == \E i \in 1..10 : Digits[i] = c

DigitVal(c) == (CHOOSE i \in 1..10 : Digits[i] = c) - 1

\* characters the enumerated match-field strings are built from
Alphabet == {"7", "%", "a", " ", "-", "_"}

RECURSIVE Concat(_)
\* "".join(parts)
Concat(parts) ==
    IF parts = <<>> THEN <<>> ELSE Head(parts) \o Concat(Tail(parts))

RECURSIVE NatToStr(_)
NatToStr(n) ==
    IF n < 10 THEN <<Digits[n + 1]>>
    ELSE NatToStr(n \div 10) \o <<Digits[(n % 10) + 1]>>

\* str(n) of a Python int
IntToStr(n) == IF n < 0 THEN <<"-">> \o NatToStr(-n) ELSE NatToStr(n)

RECURSIVE LStrip(_, _)
LStrip(s, c) ==
    IF s # <<>> /\ Head(s) = c THEN LStrip(Tail(s), c) ELSE s

RECURSIVE RStrip(_, _)
RStrip(s, c) ==
    IF s # <<>> /\ s[Len(s)] = c THEN RStrip(SubSeq(s, 1, Len(s) - 1), c) ELSE s

\* s.strip(c) for a one-character c: removes every leading and trailing c
Strip(s, c) == RStrip(LStrip(s, c), c)

\* digit groups separated by single underscores: what int() accepts after the sign
IsDigitString(s) ==
    /\ s # <<>>
    /\ IsDigit(s[1])
    /\ IsDigit(s[Len(s)])
    /\ \A i \in 1..Len(s) : IsDigit(s[i]) \/ s[i] = "_"
    /\ \A i \in 1..(Len(s) - 1) : ~(s[i] = "_" /\ s[i + 1] = "_")

RECURSIVE DigitsValue(_, _)
DigitsValue(s, acc) ==
    IF s = <<>> THEN acc
    ELSE IF Head(s) = "_" THEN DigitsValue(Tail(s), acc)
    ELSE DigitsValue(Tail(s), 10 * acc + DigitVal(Head(s)))

HasSign(s) == s # <<>> /\ Head(s) \in {"+", "-"}

Unsigned(s) == IF HasSign(s) THEN Tail(s) ELSE s

\* int(s) succeeds: surrounding whitespace, an optional sign, a digit string
IntParses(s) == IsDigitString(Unsigned(Strip(s, " ")))

\* the value of int(s) when IntParses(s)
IntOf(s) ==
    LET t == Strip(s, " ")
        v == DigitsValue(Unsigned(t), 0)
    IN  IF HasSign(t) /\ Head(t) = "-" THEN -v ELSE v

(***************************************************************************)
(* JSON values as json.loads delivers them.                                *)
(***************************************************************************)
Mk(t, n, s, items) == [t |-> t, n |-> n, s |-> s, items |-> items]

IntV(n) == Mk("int", n, <<>>, <<>>)
StrV(s) == Mk("str", 0, s, <<>>)
NullV == Mk("null", 0, <<>>, <<>>)
BoolV(b) == Mk("bool", IF b THEN 1 ELSE 0, <<>>, <<>>)
\* a float n.frac, frac a sequence of digits
FloatV(n, frac) == Mk("float", n, frac, <<>>)
ListV(items) == Mk("list", 0, <<>>, items)
\* a nested dict: its keys in order, every key holding the int n
DictV(keys, n) == Mk("dict", n, <<>>, keys)
\* the key is not in the dict
Absent == Mk("absent", 0, <<>>, <<>>)

\* isinstance(v, int): bool is a subclass of int
IsInstanceInt(v) == v.t \in {"int", "bool"}

\* isinstance(v, (int, float))
IsInstanceNumber(v) == v.t \in {"int", "bool", "float"}

\* bool(v)
Truthy(v) ==
    CASE v.t = "null" -> FALSE
      [] v.t \in {"int", "bool"} -> v.n # 0
      [] v.t = "float" -> v.n # 0 \/ \E i \in 1..Len(v.s) : v.s[i] # "0"
      [] v.t = "str" -> v.s # <<>>
      [] v.t \in {"list", "dict"} -> v.items # <<>>
      [] OTHER -> FALSE

\* iter(v) is defined
Iterable(v) == v.t \in {"str", "list", "dict"}

\* the elements a for loop over v visits
IterItems(v) ==
    CASE v.t = "str" -> [i \in 1..Len(v.s) |-> StrV(<<v.s[i]>>)]
      [] v.t \in {"list", "dict"} -> v.items
      [] OTHER -> <<>>

\* ", ".join(parts)
JoinComma(parts) ==
    Concat([i \in 1..Len(parts) |->
              IF i = 1 THEN parts[i] ELSE <<",", " ">> \o parts[i]])

\* str(v) of a value that is not a container
AtomStr(v) ==
    CASE v.t = "str" -> v.s
      [] v.t = "int" -> IntToStr(v.n)
      [] v.t = "bool" -> IF v.n = 1 THEN <<"T", "r", "u", "e">>
                                    ELSE <<"F", "a", "l", "s", "e">>
      [] v.t = "null" -> <<"N", "o", "n", "e">>
      [] v.t = "float" -> IntToStr(v.n) \o <<".">> \o v.s
      [] OTHER -> <<>>

\* repr(v) of a container's element
AtomRepr(v) == IF v.t = "str" THEN <<"'">> \o v.s \o <<"'">> ELSE AtomStr(v)

\* str(v)
PyStr(v) ==
    CASE v.t = "list" ->
           <<"[">> \o JoinComma([i \in 1..Len(v.items) |-> AtomRepr(v.items[i])])
                   \o <<"]">>
      [] v.t = "dict" ->
           <<"{">> \o JoinComma([i \in 1..Len(v.items) |->
                                   AtomRepr(v.items[i]) \o <<":", " ">> \o IntToStr(v.n)])
                   \o <<"}">>
      [] OTHER -> AtomStr(v)

(***************************************************************************)
(* The AI response.  A raw response is either text json.loads rejects or   *)
(* the text of a JSON value; a top-level object is its three known keys,   *)
(* each holding a value or Absent.                                         *)
(***************************************************************************)
KeyMatch == "JD Match"
KeyKeywords == "MissingKeywords"
KeySummary == "Profile Summary"
Keys == {KeyMatch, KeyKeywords, KeySummary}

ObjectV == Mk("object", 0, <<>>, <<>>)

NoFields == [k \in Keys |-> Absent]

\* response text that is not JSON
NotJson == [json |-> FALSE, top |-> Absent, fields |-> NoFields]

\* response text of a JSON value that is not an object
JsonValue(v) == [json |-> TRUE, top |-> v, fields |-> NoFields]

\* response text of a JSON object
JsonObject(m, k, p) ==
    [json |-> TRUE, top |-> ObjectV,
     fields |-> [key \in Keys |-> IF key = KeyMatch THEN m
                                  ELSE IF key = KeyKeywords THEN k ELSE p]]

\* json.loads(response) raises json.JSONDecodeError
LoadsFails(raw) == ~raw.json

\* json.loads(response)
json_loads(raw) == [top |-> raw.top, fields |-> raw.fields]

\* nothing decoded yet
NoJson == [top |-> Absent, fields |-> NoFields]

\* response_json has a .get method
HasGet(j) == j.top.t = "object"

dict_get_nodefault(j, key, default) ==
    IF j.fields[key].t = "absent" THEN NullV ELSE j.fields[key]

\* response_json.get(key, default)
dict_get(j, key, default) ==
    IF j.fields[key].t = "absent" THEN default ELSE j.fields[key]

Chr(str) == StrV(<<str>>)
ZeroPercent == StrV(<<"0", "%">>)
NoSummary ==
    StrV(<<"N", "o", " ", "s", "u", "m", "m", "a", "r", "y", " ",
           "a", "v", "a", "i", "l", "a", "b", "l", "e">>)
EmptyList == ListV(<<>>)

(***************************************************************************)
(* Tab 1: the match score.                                                 *)
(***************************************************************************)
ScoreOk(v) == [raised |-> FALSE, value |-> v]
ScoreValueError == [raised |-> TRUE, value |-> Absent]

score_value_nostrip(match) ==
    IF IsInstanceInt(match) THEN ScoreOk(match)
    ELSE IF IntParses(PyStr(match)) THEN ScoreOk(IntV(IntOf(PyStr(match))))
    ELSE ScoreValueError

\* score_value of lines 194-198, or the ValueError int() raises
score_value(match) ==
    IF IsInstanceInt(match) THEN ScoreOk(match)
    ELSE LET text == Strip(PyStr(match), "%")
         IN  IF IntParses(text) THEN ScoreOk(IntV(IntOf(text)))
             ELSE ScoreValueError

NoChart == [drawn |-> FALSE, pie |-> FALSE, match |-> 0, gap |-> 0, text |-> <<>>]

\* create_donut_chart(score) as st.plotly_chart draws it
create_donut_chart(score) ==
    IF ~IsInstanceNumber(score)
    THEN [drawn |-> TRUE, pie |-> FALSE, match |-> 0, gap |-> 0, text |-> <<>>]
    ELSE [drawn |-> TRUE, pie |-> TRUE, match |-> score.n, gap |-> Full - score.n,
          text |-> PyStr(score) \o <<"%">>]

NoRaw == [shown |-> FALSE, text |-> <<>>]

(***************************************************************************)
(* Inputs.                                                                 *)
(***************************************************************************)
RECURSIVE StringsUpTo(_)
\* every string over Alphabet of length at most n
StringsUpTo(n) ==
    IF n = 0 THEN {<<>>}
    ELSE LET shorter == StringsUpTo(n - 1)
         IN  shorter \cup {Append(s, c) : s \in shorter, c \in Alphabet}

MatchInts == {IntV(n) : n \in (0 - ScoreSlack)..(Full + ScoreSlack)}

PercentStrings == {StrV(IntToStr(n) \o <<"%">>) : n \in 0..Full}

EnumStrings == {StrV(s) : s \in StringsUpTo(MaxStrLen)}

OtherMatches ==
    {Absent, NullV, BoolV(TRUE), BoolV(FALSE),
     FloatV(87, <<"5">>), FloatV(87, <<"0">>),
     ListV(<<>>), ListV(<<IntV(7)>>), ListV(<<IntV(1), IntV(2)>>),
     DictV(<<>>, 0), DictV(<<Chr("k")>>, 1),
     StrV(<<"a", "b", "c", "%">>), StrV(<<"b", "a", "d">>),
     StrV(<<"+", "7">>), StrV(<<"8", "7", "%", " ">>), StrV(<<" ", "8", "7", "%">>)}

MatchValues == MatchInts \cup PercentStrings \cup EnumStrings \cup OtherMatches

SQL == StrV(<<"S", "Q", "L">>)
Docker == StrV(<<"D", "o", "c", "k", "e", "r">>)

KeywordValues ==
    {Absent, NullV, IntV(0), IntV(5), BoolV(TRUE), FloatV(2, <<"5">>),
     StrV(<<>>), StrV(<<"a", "b">>), DictV(<<>>, 0), DictV(<<Chr("k")>>, 1),
     ListV(<<>>), ListV(<<SQL>>), ListV(<<Docker, SQL>>), ListV(<<SQL, IntV(1)>>),
     ListV(<<SQL, SQL>>)}

SummaryValues == {Absent, StrV(<<"x">>), NullV, IntV(3)}

TopValues == {NullV, IntV(5), BoolV(TRUE), StrV(<<"s">>), ListV(<<IntV(1)>>), ListV(<<>>)}

Responses ==
    {NotJson}
    \cup {JsonValue(v) : v \in TopValues}
    \cup {JsonObject(m, k, p) : m \in MatchValues, k \in KeywordValues, p \in SummaryValues}

(***************************************************************************)
(* State.                                                                  *)
(***************************************************************************)
VARIABLES
    processing,      \* st.session_state.processing, kept across runs
    pc,              \* where the current run of main() is
    api_key,         \* os.getenv("GOOGLE_API_KEY") of this run
    jd,              \* the job description text area
    uploaded_file,   \* the file uploader
    analyze_button,  \* the Analyze button was clicked for this run
    response,        \* what get_gemini_response returned
    response_json,   \* json.loads(response)
    calls,           \* calls made in this run, by collaborator
    errors,          \* st.error messages of this run, in order
    warnings,        \* st.warning messages of the input validation
    toast,           \* the 'Analysis Complete!' toast was shown
    chart,           \* what tab 1 drew
    raw_score,       \* the "Raw Score Received" line of tab 1
    keywords_note,   \* tab 2: "none", "warning" or "success"
    keywords_shown,  \* tab 2: the bullets, in order
    summary_shown    \* tab 3: the st.info body, or Absent

vars == <<processing, pc, api_key, jd, uploaded_file, analyze_button, response,
          response_json, calls, errors, warnings, toast, chart, raw_score,
          keywords_note, keywords_shown, summary_shown>>

inputs == <<api_key, jd, uploaded_file, analyze_button>>
tab1 == <<chart, raw_score>>
tab2 == <<keywords_note, keywords_shown>>
tabs == <<chart, raw_score, keywords_note, keywords_shown, summary_shown>>

Collaborators == {"extract", "prompt", "ai", "loads"}

NoCalls == [c \in Collaborators |-> 0]

Called(c) == [calls EXCEPT ![c] = @ + 1]

\* a retrying caller gives up after this many attempts
MaxAttempts == 3

FreshRun ==
    /\ pc = "start"
    /\ api_key = "" /\ jd = "" /\ uploaded_file = FALSE /\ analyze_button = FALSE
    /\ response = NotJson /\ response_json = NoJson
    /\ calls = NoCalls /\ errors = <<>> /\ warnings = <<>> /\ toast = FALSE
    /\ chart = NoChart /\ raw_score = NoRaw
    /\ keywords_note = "none" /\ keywords_shown = <<>> /\ summary_shown = Absent

\* init_session_state on a new session, at the top of the first run
Init == processing = FALSE /\ FreshRun

FinallyKeep == processing' = processing

\* finally: st.session_state.processing = False
FinallyRelease == processing' = FALSE

\* an except clause of the request: st.error(msg), then the finally
Except(msg) ==
    /\ errors' = Append(errors, msg)
    /\ FinallyRelease
    /\ pc' = "returned"

ConfigureFallsThrough ==
    /\ pc = "start"
    /\ \E key \in {"", "key"}, configure_raises \in BOOLEAN :
         /\ api_key' = key
         /\ IF key = "" THEN errors' = Append(errors, "NoApiKey") /\ pc' = "page"
            ELSE IF configure_raises
            THEN errors' = Append(errors, "ConfigureFailed") /\ pc' = "page"
            ELSE errors' = errors /\ pc' = "page"
    /\ UNCHANGED <<processing, jd, uploaded_file, analyze_button, response,
                   response_json, calls, warnings, toast, tabs>>

\* lines 118-128: read the API key and configure the client
Configure ==
    /\ pc = "start"
    /\ \E key \in {"", "key"}, configure_raises \in BOOLEAN :
         /\ api_key' = key
         /\ IF key = "" THEN errors' = Append(errors, "NoApiKey") /\ pc' = "returned"
            ELSE IF configure_raises
            THEN errors' = Append(errors, "ConfigureFailed") /\ pc' = "returned"
            ELSE errors' = errors /\ pc' = "page"
    /\ UNCHANGED <<processing, jd, uploaded_file, analyze_button, response,
                   response_json, calls, warnings, toast, tabs>>

\* lines 149-174: the inputs, the button, and the input validation
Page ==
    /\ pc = "page"
    /\ \E text \in {"", "JD"}, file \in BOOLEAN, clicked \in BOOLEAN :
         \* a disabled button is not clicked
         /\ clicked => ~processing
         /\ jd' = text /\ uploaded_file' = file /\ analyze_button' = clicked
         /\ IF ~clicked
            THEN pc' = "returned" /\ UNCHANGED <<processing, warnings>>
            ELSE IF text = ""
            THEN /\ warnings' = Append(warnings, "NoJobDescription")
                 /\ pc' = "returned" /\ UNCHANGED processing
            ELSE IF ~file
            THEN /\ warnings' = Append(warnings, "NoResume")
                 /\ pc' = "returned" /\ UNCHANGED processing
            ELSE /\ processing' = TRUE
                 /\ pc' = "extract" /\ UNCHANGED warnings
    /\ UNCHANGED <<api_key, response, response_json, calls, errors, toast, tabs>>

\* line 177: extract_pdf_text(uploaded_file)
ExtractText ==
    /\ pc = "extract"
    /\ calls' = Called("extract")
    /\ \E raises \in BOOLEAN :
         IF raises THEN Except("ErrorOccurred")
         ELSE pc' = "prompt" /\ UNCHANGED <<processing, errors>>
    /\ UNCHANGED <<inputs, response, response_json, warnings, toast, tabs>>

\* line 178: prepare_prompt(resume_text, jd)
PreparePrompt ==
    /\ pc = "prompt"
    /\ calls' = Called("prompt")
    /\ pc' = "call"
    /\ UNCHANGED <<processing, inputs, response, response_json, errors,
                   warnings, toast, tabs>>

CallAIRetrying ==
    /\ pc = "call"
    /\ calls' = Called("ai")
    /\ \E raises \in BOOLEAN, text \in Responses :
         IF raises
         THEN IF calls["ai"] + 1 < MaxAttempts
              THEN UNCHANGED <<pc, processing, errors, response>>
              ELSE Except("ErrorOccurred") /\ UNCHANGED response
         ELSE /\ response' = text
              /\ pc' = "loads" /\ UNCHANGED <<processing, errors>>
    /\ UNCHANGED <<inputs, response_json, warnings, toast, tabs>>

\* line 179: get_gemini_response(input_prompt)
CallAI ==
    /\ pc = "call"
    /\ calls' = Called("ai")
    /\ \E raises \in BOOLEAN, text \in Responses :
         IF raises THEN Except("ErrorOccurred") /\ UNCHANGED response
         ELSE /\ response' = text
              /\ pc' = "loads" /\ UNCHANGED <<processing, errors>>
    /\ UNCHANGED <<inputs, response_json, warnings, toast, tabs>>

\* lines 180-182: json.loads(response), then the toast
Loads ==
    /\ pc = "loads"
    /\ calls' = Called("loads")
    /\ IF LoadsFails(response)
       THEN Except("DecodeIssue") /\ UNCHANGED <<response_json, toast>>
       ELSE /\ response_json' = json_loads(response)
            /\ toast' = TRUE
            /\ pc' = "tab1" /\ UNCHANGED <<processing, errors>>
    /\ UNCHANGED <<inputs, response, warnings, tabs>>

\* lines 190-203: the match score tab
Tab1 ==
    /\ pc = "tab1"
    /\ IF ~HasGet(response_json)
       THEN Except("ErrorOccurred") /\ UNCHANGED tab1
       ELSE LET match_percentage_str == dict_get(response_json, KeyMatch, ZeroPercent)
                score == score_value(match_percentage_str)
            IN  /\ IF score.raised
                   THEN /\ errors' = Append(errors, "ScoreParse")
                        /\ raw_score' = [shown |-> TRUE,
                                         text |-> PyStr(match_percentage_str)]
                        /\ UNCHANGED chart
                   ELSE /\ chart' = create_donut_chart(score.value)
                        /\ UNCHANGED <<errors, raw_score>>
                /\ pc' = "tab2" /\ UNCHANGED processing
    /\ UNCHANGED <<inputs, response, response_json, calls, warnings, toast,
                   tab2, summary_shown>>

\* lines 205-214: the keyword tab
Tab2 ==
    /\ pc = "tab2"
    /\ LET missing_keywords == dict_get(response_json, KeyKeywords, EmptyList)
       IN  IF ~Truthy(missing_keywords)
           THEN /\ keywords_note' = "success"
                /\ pc' = "tab3" /\ UNCHANGED <<keywords_shown, processing, errors>>
           ELSE IF ~Iterable(missing_keywords)
           THEN /\ keywords_note' = "warning"
                /\ Except("ErrorOccurred") /\ UNCHANGED keywords_shown
           ELSE /\ keywords_note' = "warning"
                /\ keywords_shown' =
                     [i \in 1..Len(IterItems(missing_keywords)) |->
                        PyStr(IterItems(missing_keywords)[i])]
                /\ pc' = "tab3" /\ UNCHANGED <<processing, errors>>
    /\ UNCHANGED <<inputs, response, response_json, calls, warnings, toast,
                   tab1, summary_shown>>

\* lines 216-227: the summary tab, then the finally
Tab3 ==
    /\ pc = "tab3"
    /\ summary_shown' = dict_get(response_json, KeySummary, NoSummary)
    /\ FinallyRelease
    /\ pc' = "returned"
    /\ UNCHANGED <<inputs, response, response_json, calls, errors, warnings,
                   toast, tab1, tab2>>

\* the next interaction reruns the script from the top
Rerun ==
    /\ pc = "returned"
    /\ pc' = "start"
    /\ api_key' = "" /\ jd' = "" /\ uploaded_file' = FALSE /\ analyze_button' = FALSE
    /\ response' = NotJson /\ response_json' = NoJson
    /\ calls' = NoCalls /\ errors' = <<>> /\ warnings' = <<>> /\ toast' = FALSE
    /\ chart' = NoChart /\ raw_score' = NoRaw
    /\ keywords_note' = "none" /\ keywords_shown' = <<>> /\ summary_shown' = Absent
    /\ UNCHANGED processing

Next ==
    \/ Configure
    \/ Page
    \/ ExtractText
    \/ PreparePrompt
    \/ CallAI
    \/ Loads
    \/ Tab1
    \/ Tab2
    \/ Tab3
    \/ Rerun

Spec == Init /\ [][Next]_vars

(***************************************************************************)
(* Vocabulary of the properties.                                           *)
(***************************************************************************)
Reported(msg) == \E i \in 1..Len(errors) : errors[i] = msg

\* the response decoded to a JSON object
DecodedObject == HasGet(response_json)

\* the match field of the decoded object, Absent when the key is missing
MatchField == response_json.fields[KeyMatch]
KeywordsField == response_json.fields[KeyKeywords]
SummaryField == response_json.fields[KeySummary]

\* the tab has been rendered in this run
Tab1Done == DecodedObject /\ pc \in {"tab2", "tab3", "returned"}
Tab2Done == DecodedObject /\ keywords_note # "none"
Tab3Done == DecodedObject /\ summary_shown # Absent

\* the request of this run is over
RequestEnded == pc = "returned" /\ calls["extract"] > 0

ScoreDisplayed == chart.drawn
NothingPresented ==
    /\ chart = NoChart /\ raw_score = NoRaw
    /\ keywords_note = "none" /\ keywords_shown = <<>>
    /\ summary_shown = Absent

\* the text is <n>% for the integer n
IsPercentOf(text, n) == text = IntToStr(n) \o <<"%">>

\* tab 1 shows the score n and no parse failure
ShowsScore(n) ==
    /\ chart.drawn /\ chart.pie
    /\ chart.match = n /\ chart.gap = Full - n
    /\ chart.text = IntToStr(n) \o <<"%">>
    /\ ~Reported("ScoreParse")
    /\ ~raw_score.shown

\* tab 1 shows the "could not parse" state with the raw value and no score
ShowsScoreFailure ==
    /\ Reported("ScoreParse")
    /\ raw_score.shown
    /\ ~chart.drawn

(***************************************************************************)
(* C1: an integer match field n in 0..100 is displayed as the score n, and *)
(* a match field that is the string "<n>%" with n in 0..100 is displayed   *)
(* as the score n; in neither case is a score-parse failure reported.      *)
(***************************************************************************)
C1_InRangeAccepted ==
    Tab1Done =>
      /\ (MatchField.t = "int" /\ MatchField.n \in 0..Full) => ShowsScore(MatchField.n)
      /\ \A n \in 0..Full :
           (MatchField.t = "str" /\ IsPercentOf(MatchField.s, n)) => ShowsScore(n)

C1_Witness ==
    /\ Tab1Done
    /\ MatchField = StrV(<<"8", "7", "%">>)
    /\ ShowsScore(87)

(***************************************************************************)
(* C2: an integer match field below 0 or above 100 fails with a            *)
(* score-parse failure, and no score outside 0..100 reaches the donut      *)
(* chart.                                                                  *)
(***************************************************************************)
C2_OutOfRangeRejected ==
    /\ (Tab1Done /\ MatchField.t = "int" /\ MatchField.n \notin 0..Full)
         => ShowsScoreFailure
    /\ chart.pie => chart.match \in 0..Full

(***************************************************************************)
(* C3: a match field that is neither an integer nor a string holding an    *)
(* integer literal with an optional trailing '%' fails with a score-parse  *)
(* failure and produces no numeric score.                                  *)
(***************************************************************************)
\* an integer literal, optionally followed by one '%', whitespace around either
IsIntLiteralPercent(text) ==
    LET t == Strip(text, " ")
        u == IF t # <<>> /\ t[Len(t)] = "%"
             THEN Strip(SubSeq(t, 1, Len(t) - 1), " ") ELSE t
    IN  IsDigitString(Unsigned(u))

C3_OtherValuesFail ==
    (/\ Tab1Done
     /\ MatchField.t \notin {"absent", "int"}
     /\ ~(MatchField.t = "str" /\ IsIntLiteralPercent(MatchField.s)))
      => ShowsScoreFailure

(***************************************************************************)
(* C4: when the response decodes to an object whose match field cannot be  *)
(* normalized, the request ends with the keywords and the summary          *)
(* presented, the "could not parse" state with the raw value shown, and no *)
(* score shown.                                                            *)
(***************************************************************************)
C4_ScoreFailureNonFatal ==
    (RequestEnded /\ DecodedObject /\ Reported("ScoreParse")) =>
      /\ Tab2Done /\ Tab3Done
      /\ ~Reported("ErrorOccurred")
      /\ ShowsScoreFailure
      /\ raw_score.text = PyStr(dict_get(response_json, KeyMatch, ZeroPercent))

(***************************************************************************)
(* C5: once the response decoded to an object, the request ends with all   *)
(* three tabs presented and no error from the keywords; a keywords field   *)
(* that is not a sequence of strings shows no keyword, or only its string  *)
(* entries.                                                                *)
(***************************************************************************)
\* the string entries of a list, in order; nothing for any other value
RECURSIVE StringEntries(_)
StringEntries(items) ==
    IF items = <<>> THEN <<>>
    ELSE IF Head(items).t = "str"
    THEN <<Head(items).s>> \o StringEntries(Tail(items))
    ELSE StringEntries(Tail(items))

ConformingKeywords(v) == IF v.t = "list" THEN StringEntries(v.items) ELSE <<>>

C5_FieldContainment ==
    (RequestEnded /\ DecodedObject) =>
      /\ Tab2Done /\ Tab3Done
      /\ ~Reported("ErrorOccurred")
      /\ keywords_shown = ConformingKeywords(KeywordsField)

(***************************************************************************)
(* C6: a response that does not decode to a JSON object ends the request   *)
(* with the malformed-JSON failure and nothing presented.                  *)
(***************************************************************************)
C6_DecodeFailureTerminal ==
    (RequestEnded /\ calls["loads"] > 0 /\ ~(response.json /\ response.top.t = "object"))
      => errors = <<"DecodeIssue">> /\ NothingPresented

ConfigurationFailed ==
    \/ pc # "start" /\ api_key = ""
    \/ Reported("NoApiKey")
    \/ Reported("ConfigureFailed")

C8_ConfigErrorExcludesPipeline ==
    ConfigurationFailed =>
      /\ pc = "returned"
      /\ Len(errors) = 1
      /\ calls = NoCalls
      /\ ~analyze_button /\ ~processing
      /\ response_json = NoJson /\ ~toast
      /\ NothingPresented

C8_Witness ==
    /\ pc = "returned"
    /\ api_key = "key"
    /\ errors = <<"ConfigureFailed">>

(***************************************************************************)
(* C9: within one request the AI caller is invoked at most once; when that *)
(* invocation failed, the request has ended with exactly one error         *)
(* reported, no parsing and nothing presented.                             *)
(***************************************************************************)
\* the AI call of this run raised
AICallFailed == pc \notin {"call", "loads"} /\ calls["ai"] > 0 /\ calls["loads"] = 0

C9_NoRetry ==
    /\ calls["ai"] <= 1
    /\ AICallFailed =>
         /\ pc = "returned"
         /\ errors = <<"ErrorOccurred">>
         /\ response_json = NoJson /\ ~toast
         /\ NothingPresented

C9_Witness == AICallFailed /\ calls["ai"] = 1 /\ errors = <<"ErrorOccurred">>

(***************************************************************************)
(* C10: the processing flag is True only inside a request that passed      *)
(* input validation, and False whenever a run has ended and whenever the   *)
(* button is drawn; a request rejected by validation makes no AI call.     *)
(***************************************************************************)
Validated == analyze_button /\ jd # "" /\ uploaded_file

C10_BusyFlagReleased ==
    /\ processing =>
         (Validated /\ pc \in {"extract", "prompt", "call", "loads", "tab1", "tab2", "tab3"})
    /\ pc \in {"start", "page", "returned"} => ~processing
    /\ (pc = "returned" /\ warnings # <<>>) => (calls = NoCalls /\ ~Validated)

C10_Witness ==
    /\ pc = "returned" /\ ~processing
    /\ Validated
    /\ calls["ai"] = 1 /\ calls["loads"] = 0
    /\ errors = <<"ErrorOccurred">>

====
